---- MODULE Spec2Model ----
(***************************************************************************)
(* Model of the chat backend: ChatController (context store, HTTP         *)
(* handlers) and ChatService (inference calls, streaming generator,       *)
(* generation config, quality tracker).                                   *)
(*                                                                         *)
(* Node runs the handlers on one thread: a handler runs without           *)
(* interruption between two awaits, so every action below is the code     *)
(* between two suspension points.                                         *)
(***************************************************************************)
EXTENDS Integers, Sequences, FiniteSets, Bags, TLC

(***************************************************************************)
(* Bounds of the model.                                                    *)
(***************************************************************************)
\* single-shot and enhanced requests issued in one behaviour
MaxRequests == 4
\* inference calls (single-shot, enhanced, streamed) issued in one behaviour
MaxCalls == 1
\* chunks the upstream delivers in one stream
MaxChunks == 3
\* calls issued in one behaviour when generation configs are resolved
MaxConfigCalls == 1
\* requests and chunks per stream when every handler runs together
AllRequests == 2
AllChunks == 1
\* times a reply is put through post-processing
MaxPasses == 2
\* calls of the quality tracker in one behaviour, and the days they spread over
MaxRecords == 4
MaxDay == 2

(***************************************************************************)
(* Optional values: an absent argument (undefined) is <<>>, a present one *)
(* is <<v>>.                                                               *)
(***************************************************************************)
None == <<>>
Some(v) == <<v>>

\* the concurrent single-shot / enhanced handlers in flight at most
Procs == {1, 2}

\* sessionId as the caller may send it: absent, empty, or a name
SessionArgs == {None, Some(""), Some("a")}
\* the keys the context map can get
SessionKeys == {"default", "", "a"}
\* model as the caller may send it
ModelArgs == {None, Some("llama3")}
\* useContext as the caller may send it
UseContextArgs == {None, Some(TRUE), Some(FALSE)}

\* array identities of the heap; 0 is a fresh local [] that nothing stores
ArrayIds == 1..(Cardinality(SessionKeys) + Cardinality(Procs))
NoArray == 0

VARIABLES
    conversationContext,  \* ChatController.conversationContext: key -> array id, NoArray when the key is absent
    heap,                 \* the string[] objects: array id -> sequence of entries
    responseMetrics,      \* ChatService.responseMetrics: "model-day" key -> [total, successful]
    today,                \* the calendar day new Date() gives
    procs,                \* the single-shot / enhanced handlers: position and locals
    stream,               \* the streaming request: generator position and locals, events delivered
    lastResp,             \* what the handler that finished last gave its caller
    issued,               \* requests issued so far (their number is the prompt text)
    streams,              \* streaming requests issued so far
    turns,                \* history: per key, the exchanges that updated the context since the key was last cleared
    attempts,             \* history: inference attempts that have ended, by success or failure
    recorded,             \* history: the bag of <<model, day, success>> the quality tracker was called with
    reply                 \* a reply text of the backend: the text, the passes of post-processing, its classification

vars == <<conversationContext, heap, responseMetrics, today, procs, stream,
          lastResp, issued, streams, turns, attempts, recorded, reply>>

(***************************************************************************)
(* ChatController / ChatService helpers                                    *)
(***************************************************************************)

\* configService.get('DEFAULT_MODEL', 'gemma3:4b') with DEFAULT_MODEL unset
getDefaultModel == "gemma3:4b"

\* model || this.getDefaultModel(): undefined and "" are falsy
UsedModel(modelArg) ==
    IF modelArg = None \/ modelArg = Some("") THEN getDefaultModel ELSE modelArg[1]

\* reading a property the object does not have gives undefined
Undefined == None

\* the own properties of the defaultConfigs literal (temperatures in tenths)
defaultConfigs ==
    [m \in {"gemma3:4b", "llama3", "mistral", "default"} |->
        CASE m = "gemma3:4b" -> [temperature |-> Some(7), maxTokens |-> Some(2000)]
          [] m = "llama3"    -> [temperature |-> Some(6), maxTokens |-> Some(3000)]
          [] m = "mistral"   -> [temperature |-> Some(5), maxTokens |-> Some(2500)]
          [] m = "default"   -> [temperature |-> Some(3), maxTokens |-> Some(1500)]]

\* names every object literal inherits from Object.prototype (some of them)
ObjectPrototypeKeys == {"constructor", "toString", "__proto__"}

\* an inherited member (a function, or Object.prototype itself): truthy, and it
\* has neither a temperature nor a maxTokens property
InheritedMember == [temperature |-> Undefined, maxTokens |-> Undefined]

\* defaultConfigs[model]: an own property, else an inherited one, else undefined
LookupConfig(model) ==
    IF model \in DOMAIN defaultConfigs THEN Some(defaultConfigs[model])
    ELSE IF model \in ObjectPrototypeKeys THEN Some(InheritedMember)
    ELSE Undefined

\* getModelConfig(model, temperature, maxTokens)
getModelConfig(model, temperature, maxTokens) ==
    LET looked == LookupConfig(model)
        config == IF looked # Undefined THEN looked[1] ELSE defaultConfigs["default"]
    IN  [temperature |-> IF temperature # Undefined THEN temperature ELSE config.temperature,
         maxTokens |-> IF maxTokens # Undefined THEN maxTokens ELSE config.maxTokens]

\* @Min(0.1) @Max(2.0) on temperature (in tenths) and @Min(50) @Max(4000) on maxTokens
TemperatureRange == 1..20
MaxTokensRange == 50..4000

\* `Usuario: ${prompt}` and `Asistente: ${response.content}`
UserEntry(prompt) == <<"Usuario", prompt>>
AssistantEntry(content) == <<"Asistente", content>>

\* the contents of an array reference (a fresh local [] is empty)
Deref(h, ref) == IF ref = NoArray THEN <<>> ELSE h[ref]

\* this.conversationContext.get(sessionId) || []  -- the stored array itself, or a fresh one
getConversationContext(cc, sessionId) == cc[sessionId]

\* array ids some key or some handler in flight still refers to
Referenced(cc, ps) ==
    {cc[k] : k \in SessionKeys} \cup {ps[p].context : p \in Procs}

\* the id a new array gets: the least one nothing refers to
FreshArray(cc, ps) ==
    CHOOSE a \in ArrayIds : /\ a \notin Referenced(cc, ps)
                            /\ \A b \in ArrayIds : b < a => b \in Referenced(cc, ps)

\* arrays nothing refers to any more are collected (kept empty)
Collect(h, cc, ps) ==
    [a \in ArrayIds |-> IF a \in Referenced(cc, ps) THEN h[a] ELSE <<>>]

\* an off-by-one start index: context.splice(1, n)
SpliceFromOne(s, n) ==
    IF Len(s) <= n THEN SubSeq(s, 1, 1) ELSE <<s[1]>> \o SubSeq(s, n + 2, Len(s))

\* the first n entries removed: context.splice(0, n)
Splice(s, n) == IF Len(s) <= n THEN <<>> ELSE SubSeq(s, n + 1, Len(s))

\* a limit that drops one entry instead of a pair
PushAndLimitOneEntry(context, prompt, content) ==
    LET pushed == context \o <<UserEntry(prompt), AssistantEntry(content)>>
    IN  IF Len(pushed) > 6 THEN Splice(pushed, 1) ELSE pushed

\* the array after push(user, assistant) and the size limit
PushAndLimit(context, prompt, content) ==
    LET pushed == context \o <<UserEntry(prompt), AssistantEntry(content)>>
    IN  IF Len(pushed) > 6 THEN Splice(pushed, 2) ELSE pushed

\* updateContext(sessionId, prompt, response): the new <<conversationContext, heap>>
updateContext(cc, h, ps, sessionId, prompt, content) ==
    LET ref == getConversationContext(cc, sessionId)
        arr == IF ref = NoArray THEN FreshArray(cc, ps) ELSE ref
        new == PushAndLimit(Deref(h, ref), prompt, content)
    IN  <<[cc EXCEPT ![sessionId] = arr], [h EXCEPT ![arr] = new]>>

\* the day part of new Date().toISOString(), and the bucket key `${model}-${day}`
MetricKey(model, day) == <<model, day>>

\* a tracker that counts every call as a success
TrackEverySuccess(metrics, model, success, day) ==
    LET key == MetricKey(model, day)
        old == IF key \in DOMAIN metrics THEN metrics[key]
               ELSE [total |-> 0, successful |-> 0]
        new == [total |-> old.total + 1, successful |-> old.successful + 1]
    IN  [k \in DOMAIN metrics \cup {key} |-> IF k = key THEN new ELSE metrics[k]]

\* a tracker with one bucket per model, whatever the day
TrackPerModel(metrics, model, success, day) ==
    LET key == MetricKey(model, 1)
        old == IF key \in DOMAIN metrics THEN metrics[key]
               ELSE [total |-> 0, successful |-> 0]
        new == [total |-> old.total + 1,
                successful |-> IF success THEN old.successful + 1 ELSE old.successful]
    IN  [k \in DOMAIN metrics \cup {key} |-> IF k = key THEN new ELSE metrics[k]]

\* trackResponseQuality(model, success) on day `day`: the new responseMetrics
trackResponseQuality(metrics, model, success, day) ==
    LET key == MetricKey(model, day)
        old == IF key \in DOMAIN metrics THEN metrics[key]
               ELSE [total |-> 0, successful |-> 0]
        new == [total |-> old.total + 1,
                successful |-> IF success THEN old.successful + 1 ELSE old.successful]
    IN  [k \in DOMAIN metrics \cup {key} |-> IF k = key THEN new ELSE metrics[k]]

\* (num / den).toFixed(1) + '%' for num / den >= 0: the nearest tenth, the larger one
\* when two are as near, written as <<digits before the point, digit after it>>
ToFixed1(num, den) ==
    LET tenths == (20 * num + den) \div (2 * den)
    IN  <<tenths \div 10, tenths % 10>>

\* getMetrics(): every bucket with its successRate
getMetrics(metrics) ==
    [k \in DOMAIN metrics |->
        [total |-> metrics[k].total, successful |-> metrics[k].successful,
         successRate |-> ToFixed1(metrics[k].successful * 100, metrics[k].total)]]

\* history: one more call of the tracker
Logged(rec, model, success, day) == rec (+) SetToBag({<<model, day, success>>})

\* the token metrics of a response
Tokens(prompt, completion, total) ==
    [prompt |-> prompt, completion |-> completion, total |-> total]

NoTokens == Tokens(0, 0, 0)

(***************************************************************************)
(* Reply texts: sequences of characters.  "a" stands for any character    *)
(* that is neither white space nor punctuation.                            *)
(***************************************************************************)
Whitespace == {" ", "\n"}
Punctuation == {".", "!", "?"}

\* the least and the greatest member of a non-empty set of indices
First(indices) == CHOOSE i \in indices : \A k \in indices : i <= k
Last(indices) == CHOOSE i \in indices : \A k \in indices : k <= i

\* the last index of the run of white space that starts at i (i - 1 when there is none)
WhitespaceEnd(text, i) ==
    LET solid == {j \in i..Len(text) : text[j] \notin Whitespace}
    IN  IF solid = {} THEN Len(text) ELSE First(solid) - 1

\* the newlines that can close a match of /\n\s*\n/ which starts at index i
Closing(text, i) == {j \in (i + 1)..WhitespaceEnd(text, i + 1) : text[j] = "\n"}

\* .replace(/\n\s*\n/g, '\n\n') from index i on: the leftmost newline that opens a match,
\* the longest white space that still leaves a newline to close it, and that newline
RECURSIVE NormalizeBreaks(_, _)
NormalizeBreaks(text, i) ==
    LET opening == {k \in i..Len(text) : text[k] = "\n" /\ Closing(text, k) # {}}
    IN  IF opening = {} THEN SubSeq(text, i, Len(text))
        ELSE LET k == First(opening)
             IN  SubSeq(text, i, k - 1) \o <<"\n", "\n">>
                    \o NormalizeBreaks(text, Last(Closing(text, k)) + 1)

\* .replace(/^\s+|\s+$/g, '')
Trim(text) ==
    LET solid == {i \in 1..Len(text) : text[i] \notin Whitespace}
    IN  IF solid = {} THEN <<>> ELSE SubSeq(text, First(solid), Last(solid))

\* .replace(/([.!?])\s*/g, '$1 ') from index i on
RECURSIVE SpaceAfterPunctuation(_, _)
SpaceAfterPunctuation(text, i) ==
    LET marks == {k \in i..Len(text) : text[k] \in Punctuation}
    IN  IF marks = {} THEN SubSeq(text, i, Len(text))
        ELSE LET k == First(marks)
             IN  SubSeq(text, i, k) \o <<" ">>
                    \o SpaceAfterPunctuation(text, WhitespaceEnd(text, k + 1) + 1)

\* the indices at or after i where needle occurs in text
Occurrences(text, needle, i) ==
    {k \in i..(Len(text) - Len(needle) + 1) : SubSeq(text, k, k + Len(needle) - 1) = needle}

\* text.includes(needle)
Includes(text, needle) == Occurrences(text, needle, 1) # {}

\* text.split(separator) from index i on, for a non-empty separator
RECURSIVE Split(_, _, _)
Split(text, separator, i) ==
    LET found == Occurrences(text, separator, i)
    IN  IF found = {} THEN <<SubSeq(text, i, Len(text))>>
        ELSE LET k == First(found)
             IN  <<SubSeq(text, i, k - 1)>> \o Split(text, separator, k + Len(separator))

\* text.endsWith('.')
EndsWithPeriod(text) == text # <<>> /\ text[Len(text)] = "."

\* the loop of formatLongResponse over the sentences from index i on
RECURSIVE Paragraphs(_, _, _, _)
Paragraphs(sentences, i, formatted, currentParagraph) ==
    IF i > Len(sentences)
    THEN formatted \o currentParagraph
            \o (IF EndsWithPeriod(currentParagraph) THEN <<>> ELSE <<".">>)
    ELSE LET sentence == sentences[i]
         IN  IF Len(currentParagraph) + Len(sentence) > 120
             THEN Paragraphs(sentences, i + 1,
                             formatted \o currentParagraph \o <<".", "\n", "\n">>, sentence)
             ELSE Paragraphs(sentences, i + 1, formatted,
                             currentParagraph
                                \o (IF currentParagraph # <<>> THEN <<".", " ">> ELSE <<>>)
                                \o sentence)

formatLongResponse(text) == Paragraphs(Split(text, <<".", " ">>, 1), 1, <<>>, <<>>)

postProcessResponse(response) ==
    LET processed == SpaceAfterPunctuation(Trim(NormalizeBreaks(response, 1)), 1)
    IN  IF Len(processed) > 150 /\ ~Includes(processed, <<"\n", "\n">>)
        THEN formatLongResponse(processed)
        ELSE processed

\* response.substring(0, n)
Substring0(response, n) == SubSeq(response, 1, IF n < Len(response) THEN n ELSE Len(response))

\* a classification whose length threshold is one too low
FormatFrom200(response) ==
    LET isLongResponse == Len(response) >= 200 \/ Includes(response, <<"\n">>)
    IN  [type |-> IF isLongResponse THEN "detailed" ELSE "simple",
         summary |-> IF isLongResponse THEN Substring0(response, 150) \o <<".", ".", ".">>
                     ELSE response,
         length |-> Len(response)]

\* formatResponse(response); its content field is the argument itself
formatResponse(response) ==
    LET isLongResponse == Len(response) > 200 \/ Includes(response, <<"\n">>)
    IN  [type |-> IF isLongResponse THEN "detailed" ELSE "simple",
         summary |-> IF isLongResponse THEN Substring0(response, 150) \o <<".", ".", ".">>
                     ELSE response,
         length |-> Len(response)]

NoFormat == [type |-> "none", summary |-> <<>>, length |-> 0]

NoReply == [text |-> <<>>, passes |-> 0, formatted |-> NoFormat]

(***************************************************************************)
(* State of the handlers                                                   *)
(***************************************************************************)
IdleProc ==
    [pc |-> "idle", id |-> 0, sessionId |-> "default", useContext |-> FALSE,
     context |-> NoArray, sentLen |-> 0, usedModel |-> getDefaultModel,
     temperature |-> None, maxTokens |-> None,
     config |-> getModelConfig(getDefaultModel, None, None)]

NoResp ==
    [op |-> "none", ok |-> TRUE, contextLength |-> 0, tokens |-> NoTokens,
     report |-> <<>>]

\* the tokens field of a yielded event (speed, a string derived from the wall clock, is left out)
StreamTokens(promptTokens, completionTokens) ==
    Tokens(promptTokens, completionTokens, promptTokens + completionTokens)

\* no event yet
NoEvent ==
    [eval_count |-> 0, prompt_eval_count |-> 0, done |-> FALSE, tokens |-> NoTokens]

IdleStream ==
    [pc |-> "idle", usedModel |-> getDefaultModel,
     temperature |-> None, maxTokens |-> None,      \* the caller's overrides
     config |-> getModelConfig(getDefaultModel, None, None),  \* the options sent to the backend
     completionTokens |-> 0, promptTokens |-> 0,   \* locals of generateResponseStream
     upEval |-> 0,          \* the cumulative evaluation count the upstream has reported
     pulled |-> 0,          \* chunks taken from response.data
     nSkipped |-> 0,        \* ... of them dropped by the catch of the loop body
     nYielded |-> 0,        \* ... of them turned into a yielded event
     pending |-> FALSE,     \* the generator is suspended at its yield: the event is not taken yet
     closed |-> FALSE,      \* the subscriber has unsubscribed
     nEvents |-> 0,         \* events delivered to the caller
     nDone |-> 0,           \* ... of them with done = true
     nError |-> 0,          \* ... of them with an error field
     afterDone |-> 0,       \* ... of them delivered after an event with done = true
     last |-> NoEvent,      \* the last event yielded
     end |-> "open",        \* how the caller's event sequence ended: complete, error, unsubscribed
     failed |-> FALSE,      \* the backend call failed
     successes |-> 0]       \* quality successes this stream recorded

\* the handlers in flight are interchangeable: a new request takes the first free one
FirstIdle(p) ==
    /\ procs[p].pc = "idle"
    /\ \A q \in Procs : q < p => procs[q].pc # "idle"

\* the stores and handlers after construction
InitStores ==
    /\ conversationContext = [k \in SessionKeys |-> NoArray]
    /\ heap = [a \in ArrayIds |-> <<>>]
    /\ responseMetrics = <<>>
    /\ today = 1
    /\ procs = [p \in Procs |-> IdleProc]
    /\ stream = IdleStream
    /\ lastResp = NoResp
    /\ issued = 0
    /\ streams = 0
    /\ turns = [k \in SessionKeys |-> <<>>]
    /\ attempts = 0
    /\ recorded = EmptyBag

Init ==
    /\ InitStores
    /\ reply = NoReply

(***************************************************************************)
(* POST /chat/enhanced-message                                             *)
(***************************************************************************)

\* an update that ignores useContext
ContextAlwaysUpdated(cc, h, ps, r, content) ==
    updateContext(cc, h, ps, r.sessionId, r.id, content)

\* an update that appends to the array the handler read before the call
ContextFromHandlerArray(cc, h, ps, r, content) ==
    IF ~r.useContext THEN <<cc, h>>
    ELSE LET arr == IF r.context = NoArray THEN FreshArray(cc, ps) ELSE r.context
             new == PushAndLimit(Deref(h, r.context), r.id, content)
         IN  <<[cc EXCEPT ![r.sessionId] = arr], [h EXCEPT ![arr] = new]>>

\* if (useContext) this.updateContext(sessionId, prompt, response)
ContextAfterExchange(cc, h, ps, r, content) ==
    IF r.useContext
    THEN updateContext(cc, h, ps, r.sessionId, r.id, content)
    ELSE <<cc, h>>

\* const { sessionId = 'default' } = enhancedMessageDto: the default applies to undefined only
RequestSessionId(sessionArg) == IF sessionArg = None THEN "default" ELSE sessionArg[1]

\* sendEnhancedMessage up to the awaited backend call of generateEnhancedResponse
SendEnhancedMessage(p, modelArg, temperature, maxTokens, sessionArg, useContextArg) ==
    /\ FirstIdle(p)
    /\ LET sessionId == RequestSessionId(sessionArg)
           useContext == IF useContextArg = None THEN TRUE ELSE useContextArg[1]
           context == IF useContext
                      THEN getConversationContext(conversationContext, sessionId)
                      ELSE NoArray
       IN  procs' = [procs EXCEPT ![p] =
                        [pc |-> "enhanced", id |-> issued + 1, sessionId |-> sessionId,
                         useContext |-> useContext, context |-> context,
                         sentLen |-> Len(Deref(heap, context)),
                         usedModel |-> UsedModel(modelArg),
                         temperature |-> temperature, maxTokens |-> maxTokens,
                         config |-> getModelConfig(UsedModel(modelArg), temperature, maxTokens)]]
    /\ issued' = issued + 1
    /\ UNCHANGED <<conversationContext, heap, responseMetrics, today, stream,
                   lastResp, streams, turns, attempts, recorded, reply>>

\* the backend answers: generateEnhancedResponse returns, the context is updated, the handler returns
EnhancedReturn(p, promptEval, eval) ==
    /\ procs[p].pc = "enhanced"
    /\ LET r == procs[p]
           content == r.id
           upd == ContextAfterExchange(conversationContext, heap, procs, r, content)
           ps == [procs EXCEPT ![p] = IdleProc]
       IN  /\ responseMetrics' = trackResponseQuality(responseMetrics, r.usedModel, TRUE, today)
           /\ recorded' = Logged(recorded, r.usedModel, TRUE, today)
           /\ conversationContext' = upd[1]
           /\ heap' = Collect(upd[2], upd[1], ps)
           /\ procs' = ps
           /\ lastResp' = [op |-> "enhanced", ok |-> TRUE,
                           contextLength |-> Len(Deref(upd[2], r.context)),
                           tokens |-> Tokens(promptEval, eval, promptEval + eval),
                           report |-> <<>>]
           /\ turns' = IF r.useContext
                       THEN [turns EXCEPT ![r.sessionId] = Append(@, r.id)]
                       ELSE turns
    /\ attempts' = attempts + 1
    /\ UNCHANGED <<today, stream, issued, streams, reply>>

\* the backend call fails: the catch block records the failure and rethrows
EnhancedThrow(p) ==
    /\ procs[p].pc = "enhanced"
    /\ LET r == procs[p]
           ps == [procs EXCEPT ![p] = IdleProc]
       IN  /\ responseMetrics' = trackResponseQuality(responseMetrics, r.usedModel, FALSE, today)
           /\ recorded' = Logged(recorded, r.usedModel, FALSE, today)
           /\ procs' = ps
           /\ heap' = Collect(heap, conversationContext, ps)
           /\ lastResp' = [NoResp EXCEPT !.op = "enhanced", !.ok = FALSE]
    /\ attempts' = attempts + 1
    /\ UNCHANGED <<conversationContext, today, stream, issued, streams, turns, reply>>

(***************************************************************************)
(* POST /chat/message                                                      *)
(***************************************************************************)

\* sendMessage up to the awaited backend call of generateResponse
SendMessage(p, modelArg, temperature, maxTokens) ==
    /\ FirstIdle(p)
    /\ procs' = [procs EXCEPT ![p] =
                    [IdleProc EXCEPT !.pc = "message", !.id = issued + 1,
                                     !.usedModel = UsedModel(modelArg),
                                     !.temperature = temperature, !.maxTokens = maxTokens,
                                     !.config = getModelConfig(UsedModel(modelArg),
                                                               temperature, maxTokens)]]
    /\ issued' = issued + 1
    /\ UNCHANGED <<conversationContext, heap, responseMetrics, today, stream,
                   lastResp, streams, turns, attempts, recorded, reply>>

\* the backend answers: generateResponse records a success and returns the counts
MessageReturn(p, promptEval, eval) ==
    /\ procs[p].pc = "message"
    /\ responseMetrics' = trackResponseQuality(responseMetrics, procs[p].usedModel, TRUE, today)
    /\ recorded' = Logged(recorded, procs[p].usedModel, TRUE, today)
    /\ procs' = [procs EXCEPT ![p] = IdleProc]
    /\ lastResp' = [NoResp EXCEPT !.op = "message",
                                  !.tokens = Tokens(promptEval, eval, promptEval + eval)]
    /\ attempts' = attempts + 1
    /\ UNCHANGED <<conversationContext, heap, today, stream, issued, streams, turns, reply>>

\* the backend call fails: generateResponse has no catch, sendMessage logs and rethrows
MessageThrow(p) ==
    /\ procs[p].pc = "message"
    /\ procs' = [procs EXCEPT ![p] = IdleProc]
    /\ lastResp' = [NoResp EXCEPT !.op = "message", !.ok = FALSE]
    /\ attempts' = attempts + 1
    /\ UNCHANGED <<conversationContext, heap, responseMetrics, today, stream,
                   issued, streams, turns, recorded, reply>>

(***************************************************************************)
(* GET /chat/clear-context and GET /chat/context-info                      *)
(***************************************************************************)

\* sessionId || 'default': undefined and "" are falsy
TargetSessionId(sessionArg) ==
    IF sessionArg = None \/ sessionArg = Some("") THEN "default" ELSE sessionArg[1]

\* the body getContextInfo returns
ContextInfo(cc, h, sessionArg) ==
    LET targetSessionId == TargetSessionId(sessionArg)
        context == Deref(h, cc[targetSessionId])
    IN  [sessionId |-> targetSessionId, contextLength |-> Len(context),
         messages |-> context]

\* this.conversationContext.clear() instead of delete
DeleteEveryKey(cc, key) == [k \in SessionKeys |-> NoArray]

\* this.conversationContext.delete(targetSessionId)
DeleteKey(cc, key) == [cc EXCEPT ![key] = NoArray]

clearContext(sessionArg) ==
    LET targetSessionId == TargetSessionId(sessionArg)
        cc == DeleteKey(conversationContext, targetSessionId)
    IN  /\ conversationContext' = cc
        /\ heap' = Collect(heap, cc, procs)
        /\ turns' = [turns EXCEPT ![targetSessionId] = <<>>]
        /\ lastResp' = [NoResp EXCEPT !.op = "clear-context"]
        /\ UNCHANGED <<responseMetrics, today, procs, stream, issued, streams, attempts, recorded, reply>>

getContextInfo(sessionArg) ==
    /\ lastResp' = [NoResp EXCEPT !.op = "context-info",
            !.contextLength = ContextInfo(conversationContext, heap, sessionArg).contextLength]
    /\ UNCHANGED <<conversationContext, heap, responseMetrics, today, procs, stream,
                   issued, streams, turns, attempts, recorded, reply>>

(***************************************************************************)
(* GET /chat/stream                                                        *)
(*                                                                         *)
(* streamResponse returns from(stream).pipe(map(...)).  The generator runs *)
(* once the framework subscribes; rxjs pulls it with for await, hands each *)
(* value to the subscriber, completes the observable when the generator    *)
(* returns and errors it when the generator throws.  A subscriber that has *)
(* unsubscribed makes rxjs leave its loop at the next value, which ends    *)
(* the generator at its yield.                                             *)
(***************************************************************************)

\* the evaluation counts the backend may report (0 stands for a missing field too)
EvalCounts == {0, 5, 12}
PromptCounts == {0, 3}

\* one line of the upstream body; a line that JSON.parse rejects has parseable = FALSE
Garbled ==
    [parseable |-> FALSE, eval_count |-> 0, prompt_eval_count |-> 0, done |-> FALSE]

\* The lines the upstream can send next.  Its evaluation counts are cumulative:
\* a line either carries no count (0) or one not below the last it reported, and
\* the line with done: true carries the final count.
Chunks(upEval) ==
    {Garbled} \cup
    {[parseable |-> TRUE, eval_count |-> e, prompt_eval_count |-> q, done |-> d] :
        e \in EvalCounts, q \in PromptCounts, d \in BOOLEAN}

Cumulative(upEval, chunk) ==
    \/ ~chunk.parseable
    \/ chunk.eval_count >= upEval
    \/ chunk.eval_count = 0 /\ ~chunk.done

\* a count that is reset when a chunk carries none
CompletionTokensOfChunk(completionTokens, parsedData) == parsedData.eval_count

\* if (parsedData.eval_count) completionTokens = parsedData.eval_count
NextCompletionTokens(completionTokens, parsedData) ==
    IF parsedData.eval_count # 0 THEN parsedData.eval_count ELSE completionTokens

\* if (parsedData.done && parsedData.prompt_eval_count) promptTokens = parsedData.prompt_eval_count
NextPromptTokens(promptTokens, parsedData) ==
    IF parsedData.done /\ parsedData.prompt_eval_count # 0
    THEN parsedData.prompt_eval_count ELSE promptTokens

\* { ...parsedData, tokens: {prompt, completion, total} }
YieldedEvent(parsedData, promptTokens, completionTokens) ==
    [eval_count |-> parsedData.eval_count,
     prompt_eval_count |-> parsedData.prompt_eval_count,
     done |-> parsedData.done,
     tokens |-> StreamTokens(promptTokens, completionTokens)]

\* streamResponse: the generator is created, subscribed to, and runs to its awaited backend call
streamResponse(modelArg, temperature, maxTokens) ==
    /\ stream.pc \in {"idle", "ended"}
    /\ stream' = [IdleStream EXCEPT !.pc = "requesting", !.usedModel = UsedModel(modelArg),
                                    !.temperature = temperature, !.maxTokens = maxTokens,
                                    !.config = getModelConfig(UsedModel(modelArg),
                                                              temperature, maxTokens)]
    /\ streams' = streams + 1
    /\ lastResp' = NoResp
    /\ UNCHANGED <<conversationContext, heap, responseMetrics, today, procs,
                   issued, turns, attempts, recorded, reply>>

\* the backend call fails before the first chunk: the generator throws, the observable errors
StreamRequestFails ==
    /\ stream.pc = "requesting"
    /\ stream' = [stream EXCEPT !.pc = "ended", !.failed = TRUE,
                                !.end = IF stream.closed THEN @ ELSE "error"]
    /\ attempts' = attempts + 1
    /\ UNCHANGED <<conversationContext, heap, responseMetrics, today, procs,
                   lastResp, issued, streams, turns, recorded, reply>>

\* the backend answers with a body stream: the generator enters its for await loop
StreamRequestAnswered ==
    /\ stream.pc = "requesting"
    /\ stream' = [stream EXCEPT !.pc = "streaming", !.completionTokens = 0,
                                !.promptTokens = 0]
    /\ UNCHANGED <<conversationContext, heap, responseMetrics, today, procs,
                   lastResp, issued, streams, turns, attempts, recorded, reply>>

\* a catch that gives the stream up and forgets the counts
AbortOnBadChunk(s) ==
    [s EXCEPT !.pulled = @ + 1, !.nSkipped = @ + 1, !.pc = "ended",
              !.completionTokens = 0, !.promptTokens = 0]

\* the catch of the loop body: the error is logged, nothing is yielded, the loop goes on
SkipChunk(s) == [s EXCEPT !.pulled = @ + 1, !.nSkipped = @ + 1]

\* the body of the for await loop for one chunk, up to its yield or its catch
Pulled(s, chunk) ==
    IF ~chunk.parseable
    THEN SkipChunk(s)
    ELSE LET completionTokens == NextCompletionTokens(s.completionTokens, chunk)
             promptTokens == NextPromptTokens(s.promptTokens, chunk)
         IN  [s EXCEPT !.pulled = @ + 1,
                       !.upEval = IF chunk.eval_count > @ THEN chunk.eval_count ELSE @,
                       !.completionTokens = completionTokens,
                       !.promptTokens = promptTokens,
                       !.last = YieldedEvent(chunk, promptTokens, completionTokens),
                       !.nYielded = @ + 1,
                       !.pending = TRUE]

\* rxjs takes the yielded event: subscriber.next(value), then if (subscriber.closed) return,
\* which ends the generator at its yield; otherwise it asks the generator for the next value
Consumed(s) ==
    IF ~s.pending THEN s
    ELSE IF s.closed
    THEN [s EXCEPT !.pending = FALSE, !.pc = "ended"]
    ELSE [s EXCEPT !.pending = FALSE,
                   !.nEvents = @ + 1,
                   !.nDone = IF s.last.done THEN @ + 1 ELSE @,
                   !.afterDone = IF s.nDone > 0 THEN @ + 1 ELSE @]

\* a generator that reads on while its event is not taken
ReadsAhead(s) == s.pc = "streaming"

\* the generator is waiting for response.data
AwaitsChunk(s) == s.pc = "streaming" /\ ~s.pending

\* one chunk of response.data: parsed, counted, yielded, mapped and delivered
\* (the yield and the consumer's resumption are microtasks of one turn of the event loop)
StreamChunk(chunk) ==
    /\ AwaitsChunk(stream)
    /\ Cumulative(stream.upEval, chunk)
    /\ stream' = Consumed(Pulled(stream, chunk))
    /\ attempts' = IF stream'.pc = "ended" THEN attempts + 1 ELSE attempts
    /\ UNCHANGED <<conversationContext, heap, responseMetrics, today, procs,
                   lastResp, issued, streams, turns, recorded, reply>>

\* the same in two steps, for the view of the generator alone: the chunk is taken
\* and the loop body runs to its yield or its catch ...
StreamPull(chunk) ==
    /\ AwaitsChunk(stream)
    /\ Cumulative(stream.upEval, chunk)
    /\ stream' = Pulled(stream, chunk)
    /\ attempts' = IF stream'.pc = "ended" THEN attempts + 1 ELSE attempts
    /\ UNCHANGED <<conversationContext, heap, responseMetrics, today, procs,
                   lastResp, issued, streams, turns, recorded, reply>>

\* ... and the consumer takes the event the generator is suspended on
StreamConsume ==
    /\ stream.pc = "streaming"
    /\ stream.pending
    /\ stream' = Consumed(stream)
    /\ attempts' = IF stream'.pc = "ended" THEN attempts + 1 ELSE attempts
    /\ UNCHANGED <<conversationContext, heap, responseMetrics, today, procs,
                   lastResp, issued, streams, turns, recorded, reply>>

\* response.data ends: the loop exits, a success is recorded, the generator returns
StreamUpstreamEnds ==
    /\ AwaitsChunk(stream)
    /\ responseMetrics' = trackResponseQuality(responseMetrics, stream.usedModel, TRUE, today)
    /\ recorded' = Logged(recorded, stream.usedModel, TRUE, today)
    /\ stream' = [stream EXCEPT !.pc = "ended", !.successes = @ + 1,
                                !.end = IF stream.closed THEN @ ELSE "complete"]
    /\ attempts' = attempts + 1
    /\ UNCHANGED <<conversationContext, heap, today, procs, lastResp, issued,
                   streams, turns, reply>>

\* response.data fails in mid-stream: for await throws out of the generator, the observable errors
StreamUpstreamFails ==
    /\ AwaitsChunk(stream)
    /\ stream' = [stream EXCEPT !.pc = "ended", !.failed = TRUE,
                                !.end = IF stream.closed THEN @ ELSE "error"]
    /\ attempts' = attempts + 1
    /\ UNCHANGED <<conversationContext, heap, responseMetrics, today, procs,
                   lastResp, issued, streams, turns, recorded, reply>>

\* the caller disconnects: the framework unsubscribes
StreamConsumerStops ==
    /\ stream.pc \in {"requesting", "streaming"}
    /\ ~stream.closed
    /\ stream' = [stream EXCEPT !.closed = TRUE, !.end = "unsubscribed"]
    /\ UNCHANGED <<conversationContext, heap, responseMetrics, today, procs,
                   lastResp, issued, streams, turns, attempts, recorded, reply>>

(***************************************************************************)
(* The quality tracker on its own                                          *)
(***************************************************************************)
ModelNames == {"gemma3:4b", "llama3"}

\* trackResponseQuality(model, success)
record(model, success) ==
    /\ responseMetrics' = trackResponseQuality(responseMetrics, model, success, today)
    /\ recorded' = Logged(recorded, model, success, today)
    /\ UNCHANGED <<conversationContext, heap, today, procs, stream, lastResp,
                   issued, streams, turns, attempts, reply>>

\* midnight (UTC) passes: new Date().toISOString() gives the next day
NextDay ==
    /\ today' = today + 1
    /\ UNCHANGED <<conversationContext, heap, responseMetrics, procs, stream, lastResp,
                   issued, streams, turns, attempts, recorded, reply>>

\* getMetrics(): a snapshot of the buckets
report ==
    /\ lastResp' = [NoResp EXCEPT !.op = "metrics", !.report = getMetrics(responseMetrics)]
    /\ UNCHANGED <<conversationContext, heap, responseMetrics, today, procs, stream,
                   issued, streams, turns, attempts, recorded, reply>>

(***************************************************************************)
(* Post-processing and classification of a reply text                      *)
(***************************************************************************)
Word(n) == [i \in 1..n |-> "a"]

\* replies of the backend: two runs of plain characters, what separates them, and an end
Separators ==
    {<<>>, <<" ">>, <<".">>, <<".", " ">>, <<"!", " ">>, <<"\n">>, <<"\n", "\n">>,
     <<"\n", " ", "\n">>, <<".", "\n", "\n">>}
Endings == {<<>>, <<".">>, <<" ">>}
Texts ==
    {Word(n) \o separator \o Word(m) \o ending :
        n \in {0, 1, 100, 149, 150, 200}, separator \in Separators,
        m \in {0, 1, 2, 51, 60}, ending \in Endings}

\* const processedResponse = this.postProcessResponse(rawResponse), applied to a text in hand
PostProcess ==
    /\ reply' = [text |-> postProcessResponse(reply.text), passes |-> reply.passes + 1,
                 formatted |-> NoFormat]
    /\ UNCHANGED <<conversationContext, heap, responseMetrics, today, procs, stream,
                   lastResp, issued, streams, turns, attempts, recorded>>

\* formatted: this.formatResponse(...)
FormatResponse ==
    /\ reply' = [reply EXCEPT !.formatted = formatResponse(reply.text)]
    /\ UNCHANGED <<conversationContext, heap, responseMetrics, today, procs, stream,
                   lastResp, issued, streams, turns, attempts, recorded>>

(***************************************************************************)
(* Specifications                                                          *)
(***************************************************************************)

\* The context store under concurrent enhanced exchanges, clears and queries.
NextContext ==
    \/ /\ issued < MaxRequests
       /\ \E p \in Procs, s \in {None, Some("a")}, u \in UseContextArgs :
             SendEnhancedMessage(p, None, None, None, s, u)
    \/ \E p \in Procs : EnhancedReturn(p, 0, 0)
    \/ \E p \in Procs : EnhancedThrow(p)
    \/ \E s \in {None, Some("a")} : clearContext(s)
    \/ \E s \in {None, Some("a")} : getContextInfo(s)

SpecContext == Init /\ [][NextContext]_vars

\* The three inference paths: single-shot, enhanced and streamed.
NextInference ==
    \/ /\ issued + streams < MaxCalls
       /\ \E m \in ModelArgs : streamResponse(m, None, None)
    \/ StreamRequestFails
    \/ StreamRequestAnswered
    \/ /\ stream.pulled < MaxChunks
       /\ \E c \in Chunks(stream.upEval) : StreamChunk(c)
    \/ StreamUpstreamEnds
    \/ StreamUpstreamFails
    \/ StreamConsumerStops
    \/ /\ issued + streams < MaxCalls
       /\ \E p \in Procs, m \in ModelArgs : SendMessage(p, m, None, None)
    \/ \E p \in Procs, pe \in PromptCounts, e \in EvalCounts : MessageReturn(p, pe, e)
    \/ \E p \in Procs : MessageThrow(p)
    \/ /\ issued + streams < MaxCalls
       /\ \E p \in Procs, m \in ModelArgs : SendEnhancedMessage(p, m, None, None, None, Some(FALSE))
    \/ \E p \in Procs, pe \in PromptCounts, e \in EvalCounts : EnhancedReturn(p, pe, e)
    \/ \E p \in Procs : EnhancedThrow(p)

SpecInference == Init /\ [][NextInference]_vars

\* One stream seen at the generator's yield: taking a chunk and taking its event are two steps.
NextStream ==
    \/ /\ streams < MaxCalls
       /\ \E m \in ModelArgs : streamResponse(m, None, None)
    \/ StreamRequestFails
    \/ StreamRequestAnswered
    \/ /\ stream.pulled < MaxChunks
       /\ \E c \in Chunks(stream.upEval) : StreamPull(c)
    \/ StreamConsume
    \/ StreamUpstreamEnds
    \/ StreamUpstreamFails
    \/ StreamConsumerStops

SpecStream == Init /\ [][NextStream]_vars

\* The quality tracker called in any order over several days.
NextQuality ==
    \/ /\ BagCardinality(recorded) < MaxRecords
       /\ \E m \in ModelNames, success \in BOOLEAN : record(m, success)
    \/ /\ today < MaxDay
       /\ NextDay
    \/ report

SpecQuality == Init /\ [][NextQuality]_vars

\* Post-processing and classification over the reply texts.
InitText ==
    /\ InitStores
    /\ reply \in {[NoReply EXCEPT !.text = t] : t \in Texts}

NextText ==
    \/ /\ reply.passes < MaxPasses
       /\ PostProcess
    \/ FormatResponse

SpecText == InitText /\ [][NextText]_vars

\* a line that ends the stream, and one that does not
DoneChunk ==
    [parseable |-> TRUE, eval_count |-> 12, prompt_eval_count |-> 3, done |-> TRUE]
PartChunk ==
    [parseable |-> TRUE, eval_count |-> 5, prompt_eval_count |-> 0, done |-> FALSE]

\* Every handler together.
Next ==
    \/ /\ issued + streams < AllRequests
       /\ \E p \in Procs, s \in SessionArgs, u \in UseContextArgs :
             SendEnhancedMessage(p, None, None, None, s, u)
    \/ \E p \in Procs : EnhancedReturn(p, 0, 0)
    \/ \E p \in Procs : EnhancedThrow(p)
    \/ /\ issued + streams < AllRequests
       /\ \E p \in Procs : SendMessage(p, None, None, None)
    \/ \E p \in Procs : MessageReturn(p, 0, 0)
    \/ \E p \in Procs : MessageThrow(p)
    \/ \E s \in SessionArgs : clearContext(s)
    \/ \E s \in SessionArgs : getContextInfo(s)
    \/ /\ issued + streams < AllRequests
       /\ streamResponse(None, None, None)
    \/ StreamRequestFails
    \/ StreamRequestAnswered
    \/ /\ stream.pulled < AllChunks
       /\ \E c \in {Garbled, PartChunk, DoneChunk} : StreamChunk(c)
    \/ StreamUpstreamEnds
    \/ StreamUpstreamFails
    \/ StreamConsumerStops

Spec == Init /\ [][Next]_vars

\* Generation-config resolution for the models and overrides a caller may send.
ConfigModels ==
    {None, Some(""), Some("gemma3:4b"), Some("llama3"), Some("mistral"), Some("default"),
     Some("phi3"), Some("constructor"), Some("__proto__")}
TemperatureArgs == {None, Some(0), Some(1), Some(20)}
MaxTokensArgs == {None, Some(0), Some(50), Some(4000)}

NextConfig ==
    \/ /\ issued + streams < MaxConfigCalls
       /\ \E p \in Procs, m \in ConfigModels, t \in TemperatureArgs, k \in MaxTokensArgs :
             SendMessage(p, m, t, k)
    \/ \E p \in Procs : MessageReturn(p, 0, 0)
    \/ \E p \in Procs : MessageThrow(p)
    \/ /\ issued + streams < MaxConfigCalls
       /\ \E p \in Procs, m \in ConfigModels, t \in TemperatureArgs, k \in MaxTokensArgs :
             SendEnhancedMessage(p, m, t, k, None, Some(FALSE))
    \/ \E p \in Procs : EnhancedReturn(p, 0, 0)
    \/ \E p \in Procs : EnhancedThrow(p)
    \/ /\ issued + streams < MaxConfigCalls
       /\ \E m \in ConfigModels, t \in TemperatureArgs, k \in MaxTokensArgs :
             streamResponse(m, t, k)
    \/ StreamRequestFails
    \/ StreamRequestAnswered

SpecConfig == Init /\ [][NextConfig]_vars

(***************************************************************************)
(* Properties                                                              *)
(***************************************************************************)

\* what the store holds for a key (empty when the key is absent)
StoredContext(k) == Deref(heap, conversationContext[k])

Min(a, b) == IF a < b THEN a ELSE b

\* the entries of a list of exchanges, in order: each exchange's user entry, then its assistant entry
RECURSIVE TurnEntries(_)
TurnEntries(ids) ==
    IF ids = <<>> THEN <<>>
    ELSE <<UserEntry(Head(ids)), AssistantEntry(Head(ids))>> \o TurnEntries(Tail(ids))

\* the last n entries of a sequence
LastEntries(s, n) == SubSeq(s, Len(s) - n + 1, Len(s))

\* C1: after N successful enhanced exchanges with useContext on a session (no
\* clear in between) the stored context has length min(2N, 6), never more than
\* 6, and is exactly the most recent entries in order: what is evicted is
\* the oldest user/assistant pair.
C1_ContextIsMostRecentTurns ==
    \A k \in SessionKeys :
        LET n == Len(turns[k])
        IN  /\ Len(StoredContext(k)) = Min(2 * n, 6)
            /\ Len(StoredContext(k)) <= 6
            /\ StoredContext(k) = LastEntries(TurnEntries(turns[k]), Min(2 * n, 6))

\* a fourth exchange on one session has evicted the first pair
C1_Witness ==
    \E k \in SessionKeys :
        /\ Len(turns[k]) = 4
        /\ Len(StoredContext(k)) = 6
        /\ StoredContext(k)[1] = UserEntry(turns[k][2])

\* the store's contents for key k in a given map and heap
ContextOf(cc, h, k) == Deref(h, cc[k])

\* C8: clear(sessionId) removes that session and only that one: right after it
\* context-info for the same sessionId reports contextLength 0 and no messages,
\* every other session's context is what it was, and this is so whether or not
\* the session existed (clearing an absent session is not an error).
C8_ClearRemovesOnlyThatSession ==
    [][\A s \in SessionArgs :
          clearContext(s) =>
              LET info == ContextInfo(conversationContext', heap', s)
              IN  /\ conversationContext'[TargetSessionId(s)] = NoArray
                  /\ info.contextLength = 0
                  /\ info.messages = <<>>
                  /\ \A k \in SessionKeys \ {TargetSessionId(s)} :
                        /\ conversationContext'[k] = conversationContext[k]
                        /\ ContextOf(conversationContext', heap', k)
                              = ContextOf(conversationContext, heap, k)]_vars

\* a session that held turns has just been cleared (a handler in flight still
\* holds its array, which no key maps to any more) while another keeps its turns
C8_Witness ==
    /\ lastResp.op = "clear-context"
    /\ \E p \in Procs :
          /\ procs[p].context # NoArray
          /\ heap[procs[p].context] # <<>>
          /\ \A k \in SessionKeys : conversationContext[k] # procs[p].context
          /\ conversationContext[procs[p].sessionId] = NoArray
    /\ \E k \in SessionKeys : StoredContext(k) # <<>>

\* every stored context is a sequence of whole pairs
C9_WholePairs ==
    \A k \in SessionKeys :
        LET c == StoredContext(k)
        IN  /\ Len(c) % 2 = 0
            /\ Len(c) <= 6
            /\ \A i \in 1..(Len(c) \div 2) :
                  /\ c[2 * i - 1][1] = "Usuario"
                  /\ c[2 * i][1] = "Asistente"
                  /\ c[2 * i - 1][2] = c[2 * i][2]
            /\ \A i, j \in 1..(Len(c) \div 2) :
                  i # j => c[2 * i - 1][2] # c[2 * j - 1][2]

\* an exchange that completes appends its own pair, once, after entries that were there
C9_AppendsOwnPair ==
    \A p \in Procs :
        (/\ procs[p].pc = "enhanced"
         /\ procs[p].useContext
         /\ procs'[p].pc = "idle"
         /\ lastResp'.ok)
        => LET k == procs[p].sessionId
               old == ContextOf(conversationContext, heap, k)
               new == ContextOf(conversationContext', heap', k)
               own == <<UserEntry(procs[p].id), AssistantEntry(procs[p].id)>>
           IN  /\ Len(new) >= 2
               /\ LastEntries(new, 2) = own
               /\ \A i \in 1..Len(old) : old[i] \notin {own[1], own[2]}
               /\ Len(new) - 2 <= Len(old)
               /\ SubSeq(new, 1, Len(new) - 2) = LastEntries(old, Len(new) - 2)

\* C9: under any interleaving of concurrent enhanced exchanges on one session
\* the stored context is never corrupted: it always has even length at most 6
\* and is made of whole pairs, each user entry directly followed by the
\* assistant entry of the same exchange, and every exchange that completes
\* appends its pair exactly once.
C9_NoCorruptionUnderInterleaving ==
    []C9_WholePairs /\ [][C9_AppendsOwnPair]_vars

\* two exchanges on one session overlapped: the one issued later completed first,
\* and both pairs are stored
C9_Witness ==
    \E k \in SessionKeys :
        /\ Len(turns[k]) >= 2
        /\ turns[k][1] > turns[k][2]
        /\ Len(StoredContext(k)) >= 4

\* some key's stored context differs between the two states of a step
ContextChanged ==
    \E k \in SessionKeys :
        \/ conversationContext'[k] # conversationContext[k]
        \/ ContextOf(conversationContext', heap', k) # ContextOf(conversationContext, heap, k)

\* the step is the successful return of an enhanced exchange that uses the context
SuccessfulExchangeStep ==
    \E p \in Procs :
        /\ procs[p].pc = "enhanced"
        /\ procs[p].useContext
        /\ procs'[p].pc = "idle"
        /\ lastResp'.op = "enhanced"
        /\ lastResp'.ok

\* C7: the context store is mutated only by a successful enhanced exchange (with
\* useContext) or by clear: a failed exchange, an exchange with useContext =
\* false, a /chat/message call, a /chat/stream call and a /chat/context-info
\* query leave every session's stored context unchanged.
C7_OnlyExchangeOrClearMutates ==
    [][ContextChanged => (SuccessfulExchangeStep \/ \E s \in SessionArgs : clearContext(s))]_vars

\* an enhanced exchange has just failed while a session holds turns
C7_Witness ==
    /\ lastResp.op = "enhanced"
    /\ ~lastResp.ok
    /\ \E k \in SessionKeys : StoredContext(k) # <<>>

\* C2 (as claimed): when the backend call of a stream fails, before the first
\* chunk or in mid-stream, the caller (unless it has gone) gets exactly one
\* terminal event with an error field and done = true, and the sequence then
\* completes normally.
C2_FailureYieldsTerminalErrorEvent ==
    (stream.failed /\ ~stream.closed) =>
        /\ stream.end = "complete"
        /\ stream.nError = 1
        /\ stream.last.done

RECURSIVE SumTotals(_, _)
SumTotals(metrics, keys) ==
    IF keys = {} THEN 0
    ELSE LET k == CHOOSE x \in keys : TRUE
         IN  metrics[k].total + SumTotals(metrics, keys \ {k})

\* C3 (as claimed): every inference attempt that has ended, by success or by
\* failure and on any of the three paths, has added exactly one to the total of
\* a quality bucket.
C3_EveryAttemptCounted ==
    attempts = SumTotals(responseMetrics, DOMAIN responseMetrics)

\* total = prompt + completion
TokensAddUp(t) == t.total = t.prompt + t.completion

\* the token metrics of the last single-shot / enhanced response and of the last streamed event add up
C4_TotalsAddUp ==
    /\ TokensAddUp(lastResp.tokens)
    /\ TokensAddUp(stream.last.tokens)

\* within a stream the completion count never goes down from one event to the next,
\* and the event of the chunk that completes the stream has the chunk's own total
C4_StreamCounts ==
    /\ (stream'.nEvents > stream.nEvents /\ stream.nEvents > 0)
          => stream'.last.tokens.completion >= stream.last.tokens.completion
    /\ (stream.nDone = 0 /\ stream'.nDone = 1)
          => stream'.last.tokens.total
                = stream'.last.prompt_eval_count + stream'.last.eval_count

\* C4: every token-metrics value (single-shot, enhanced, each streamed event)
\* has total = prompt + completion; within one stream the completion count of
\* successive events is non-decreasing; and the event with done = true has
\* total = the terminal chunk's prompt_eval_count + eval_count.
C4_TokenAccounting ==
    []C4_TotalsAddUp /\ [][C4_StreamCounts]_vars

\* the chunks [{eval_count: 5}, {eval_count: 12, prompt_eval_count: 3, done: true}]
\* have given two events, the second with total 15
C4_Witness ==
    /\ stream.nEvents = 2
    /\ stream.pulled = 2
    /\ stream.last.done
    /\ stream.last.tokens = Tokens(3, 12, 15)

\* C5 (as claimed): once an event with done = true has been yielded, the
\* stream produces no further event, whatever the upstream sends afterwards.
C5_NoEventAfterDone ==
    stream.afterDone = 0

\* C6 (as claimed): a stream that has ended recorded a quality success exactly
\* once if it yielded an event with done = true, and none otherwise.
C6_SuccessIffDone ==
    stream.pc = "ended" =>
        stream.successes = (IF stream.nDone > 0 THEN 1 ELSE 0)

\* a resolved config has a positive temperature and a positive maxTokens
PositiveConfig(config) ==
    /\ config.temperature # Undefined
    /\ config.temperature[1] > 0
    /\ config.maxTokens # Undefined
    /\ config.maxTokens[1] > 0

\* C10 (as claimed): for any model string and no overrides, getModelConfig
\* gives a config with temperature > 0 and maxTokens > 0.
C10_ResolutionIsTotal ==
    /\ \A p \in Procs :
          (procs[p].pc # "idle" /\ procs[p].temperature = None /\ procs[p].maxTokens = None)
              => PositiveConfig(procs[p].config)
    /\ (stream.pc # "idle" /\ stream.temperature = None /\ stream.maxTokens = None)
          => PositiveConfig(stream.config)

\* what taking chunk c must have done to the stream
ChunkHandled(c) ==
    IF c.parseable
    THEN /\ stream'.nYielded = stream.nYielded + 1
         /\ stream'.nSkipped = stream.nSkipped
         /\ stream'.pending
         /\ stream'.last = YieldedEvent(c, stream'.promptTokens, stream'.completionTokens)
    ELSE /\ stream'.nYielded = stream.nYielded
         /\ stream'.nSkipped = stream.nSkipped + 1
         /\ ~stream'.pending
         /\ stream'.last = stream.last
         /\ stream'.pc = "streaming"
         /\ stream'.end = stream.end
         /\ stream'.promptTokens = stream.promptTokens
         /\ stream'.completionTokens = stream.completionTokens

\* every chunk taken so far was either skipped or turned into one event
C11_EveryChunkAccounted ==
    /\ stream.pulled = stream.nYielded + stream.nSkipped
    /\ stream.nEvents <= stream.nYielded

\* C11: a chunk that fails to parse is skipped: it yields no event, does not
\* end the sequence and leaves the running prompt and completion counts as
\* they were; every parseable chunk yields exactly one event, its own, so the
\* events correspond one-to-one and in order to the parseable chunks.
C11_BadChunkSkipped ==
    /\ []C11_EveryChunkAccounted
    /\ [][\A c \in Chunks(stream.upEval) : StreamPull(c) => ChunkHandled(c)]_vars

\* a chunk was skipped between two chunks that gave the events of 5 and of 12 tokens
C11_Witness ==
    /\ stream.pulled = 3
    /\ stream.nSkipped = 1
    /\ stream.nEvents = 2
    /\ stream.pc = "streaming"
    /\ stream.last.tokens.completion = 12

\* the generator is never more than one chunk ahead of what it has handled, nor
\* more than one event ahead of what the consumer has taken
C18_OneAhead ==
    /\ stream.pulled <= stream.nYielded + stream.nSkipped + 1
    /\ stream.nYielded <= stream.nEvents + 1

\* C18: the generator pulls one upstream chunk per yield and never prefetches:
\* the chunks taken are at most one more than those yielded or skipped, and no
\* chunk is taken while a yielded event waits to be consumed.
C18_NoPrefetch ==
    /\ []C18_OneAhead
    /\ [][stream.pending => stream'.pulled = stream.pulled]_vars

\* an event waits at the yield after two chunks were handled, one of them skipped
C18_Witness ==
    /\ stream.pending
    /\ stream.pulled = 3
    /\ stream.nSkipped = 1
    /\ stream.nEvents = 1
    /\ ~stream.closed

\* the calls of the tracker for a model on a day, by outcome
Records(model, day, success) == CopiesIn(<<model, day, success>>, recorded)

\* the buckets are the (model, day) pairs recorded, each with its counts
C12_BucketsCountRecords ==
    /\ \A m \in ModelNames, d \in 1..(MaxDay + 1) :
          MetricKey(m, d) \in DOMAIN responseMetrics
              <=> Records(m, d, TRUE) + Records(m, d, FALSE) >= 1
    /\ \A k \in DOMAIN responseMetrics :
          LET b == responseMetrics[k]
          IN  /\ b.total >= 1
              /\ 0 <= b.successful
              /\ b.successful <= b.total
              /\ b.total = Records(k[1], k[2], TRUE) + Records(k[1], k[2], FALSE)
              /\ b.successful = Records(k[1], k[2], TRUE)

\* a rate <<w, t>> is successful / total as a percentage to the nearest tenth
IsRateOf(rate, successful, total) ==
    LET tenths == 10 * rate[1] + rate[2]
        d == tenths * total - 1000 * successful
    IN  /\ rate[2] \in 0..9
        /\ 2 * d <= total
        /\ -2 * d <= total

\* every bucket of a report carries the rate of its own counts
C12_ReportGivesRate ==
    \A k \in DOMAIN lastResp.report :
        LET b == lastResp.report[k]
        IN  /\ IsRateOf(b.successRate, b.successful, b.total)
            /\ (b.total = 2 /\ b.successful = 1) => b.successRate = <<50, 0>>

\* a report has the buckets that exist when it is made, with their counts
C12_ReportIsSnapshot ==
    /\ DOMAIN lastResp'.report = DOMAIN responseMetrics
    /\ \A k \in DOMAIN responseMetrics :
          /\ lastResp'.report[k].total = responseMetrics[k].total
          /\ lastResp'.report[k].successful = responseMetrics[k].successful

\* C12: after any sequence of record(model, success) calls every existing
\* bucket has total >= 1 and 0 <= successful <= total, total is the number of
\* records for its (model, day) and successful the number of those with
\* success = true; report() gives successRate = successful / total as a
\* percentage with one decimal (one success and one failure give "50.0%").
C12_QualityBuckets ==
    /\ [](C12_BucketsCountRecords /\ C12_ReportGivesRate)
    /\ [][report => C12_ReportIsSnapshot]_vars

\* a model has one success and one failure on one day and records on another day;
\* the report says 50.0% for the first
C12_Witness ==
    /\ lastResp.op = "metrics"
    /\ \E m \in ModelNames :
          /\ MetricKey(m, 1) \in DOMAIN lastResp.report
          /\ MetricKey(m, 2) \in DOMAIN lastResp.report
          /\ lastResp.report[MetricKey(m, 1)] =
                [total |-> 2, successful |-> 1, successRate |-> <<50, 0>>]
          /\ Records(m, 1, TRUE) = 1
          /\ Records(m, 1, FALSE) = 1

\* C13: classify(text) gives kind "detailed" exactly when the text is longer
\* than 200 characters or contains a newline (200 characters without a newline
\* are "simple", 201 are "detailed"); the summary is the first 150 characters
\* followed by "..." when detailed and the whole text otherwise; length is
\* the length of the text.
C13_Classification ==
    reply.formatted # NoFormat =>
        LET text == reply.text
            detailed == Len(text) > 200 \/ \E i \in 1..Len(text) : text[i] = "\n"
        IN  /\ reply.formatted.type = (IF detailed THEN "detailed" ELSE "simple")
            /\ (Len(text) = 200 /\ \A i \in 1..200 : text[i] # "\n")
                    => reply.formatted.type = "simple"
            /\ reply.formatted.summary =
                    (IF detailed
                     THEN [i \in 1..Min(150, Len(text)) |-> text[i]] \o <<".", ".", ".">>
                     ELSE text)
            /\ reply.formatted.length = Len(text)

\* a text of 201 characters without a newline is classified as detailed, with a summary of 150 + 3
C13_Witness ==
    /\ Len(reply.text) = 201
    /\ \A i \in 1..201 : reply.text[i] # "\n"
    /\ reply.formatted.type = "detailed"
    /\ Len(reply.formatted.summary) = 153
    /\ reply.formatted.length = 201

\* C14 (as claimed): post-processing is idempotent: a text that has been
\* post-processed is left as it is by post-processing it again, texts longer
\* than 150 characters that go through the re-paragraphing pass included.
C14_PostProcessIdempotent ==
    [][(reply.passes >= 1 /\ reply'.passes = reply.passes + 1)
            => reply'.text = reply.text]_vars

RECURSIVE SumSuccessful(_, _)
SumSuccessful(metrics, keys) ==
    IF keys = {} THEN 0
    ELSE LET k == CHOOSE x \in keys : TRUE
         IN  metrics[k].successful + SumSuccessful(metrics, keys \ {k})

\* the handler in p finishes an enhanced exchange in this step
EnhancedEnds(p) == procs[p].pc = "enhanced" /\ procs'[p].pc = "idle"

\* what the end of an enhanced exchange records, and what a failed one leaves alone
OneOutcomeRecorded ==
    /\ SumTotals(responseMetrics', DOMAIN responseMetrics')
          = SumTotals(responseMetrics, DOMAIN responseMetrics) + 1
    /\ SumSuccessful(responseMetrics', DOMAIN responseMetrics')
          = SumSuccessful(responseMetrics, DOMAIN responseMetrics)
               + (IF lastResp'.ok THEN 1 ELSE 0)
    /\ ~lastResp'.ok =>
          \A k \in SessionKeys :
              ContextOf(conversationContext', heap', k) = ContextOf(conversationContext, heap, k)

\* C15: a failure of the backend call during a single-shot or an enhanced
\* exchange reaches the caller as a thrown error, never as a success response;
\* an enhanced exchange records exactly one quality outcome, a success or a
\* failure and never both; a failed exchange leaves every context as it was.
C15_FailurePropagates ==
    [][\A p \in Procs :
          /\ (EnhancedThrow(p) \/ MessageThrow(p)) =>
                (~lastResp'.ok /\ lastResp'.tokens = NoTokens)
          /\ EnhancedEnds(p) => OneOutcomeRecorded]_vars

\* an enhanced exchange has failed after another one stored a turn: one success
\* and one failure are on record and the turn is still there
C15_Witness ==
    /\ lastResp.op = "enhanced"
    /\ ~lastResp.ok
    /\ SumTotals(responseMetrics, DOMAIN responseMetrics) = 2
    /\ SumSuccessful(responseMetrics, DOMAIN responseMetrics) = 1
    /\ \E k \in SessionKeys : Len(StoredContext(k)) = 2

\* the overrides a request carries are within the ranges declared on EnhancedMessageDto
WithinDeclaredRanges(r) ==
    /\ r.temperature # None => r.config.temperature[1] \in TemperatureRange
    /\ r.maxTokens # None => r.config.maxTokens[1] \in MaxTokensRange

\* C16 (as claimed): an enhanced-message body with temperature outside
\* [0.1, 2.0] or maxTokens outside [50, 4000] is rejected before any backend
\* call: no enhanced request that is at the backend carries an out-of-range value.
C16_OutOfRangeNeverSent ==
    \A p \in Procs : procs[p].pc = "enhanced" => WithinDeclaredRanges(procs[p])

\* the entry of the static table for a model: its own, or the fallback "default"
TableValue(model) ==
    IF model \in DOMAIN defaultConfigs THEN defaultConfigs[model] ELSE defaultConfigs["default"]

\* the config of a request is, field by field, the override if supplied and the table value if not
ResolvedPerField(r) ==
    /\ r.config.temperature =
          (IF r.temperature # None THEN r.temperature ELSE TableValue(r.usedModel).temperature)
    /\ r.config.maxTokens =
          (IF r.maxTokens # None THEN r.maxTokens ELSE TableValue(r.usedModel).maxTokens)

\* C17 (as claimed): explicit overrides win per field independently: the
\* resolved temperature is the caller's whenever one is supplied, whatever its
\* value, and the table value otherwise, and likewise for maxTokens; one
\* override never changes the other field.
C17_OverridesWinPerField ==
    /\ \A p \in Procs : procs[p].pc # "idle" => ResolvedPerField(procs[p])
    /\ stream.pc # "idle" => ResolvedPerField(stream)

\* C19 (as claimed): the contextLength an enhanced exchange returns is the
\* number of prior-turn entries that went into the prompt sent to the backend
\* (the context as read before the call), not the length after the
\* exchange's own pair was appended.
C19_ContextLengthIsWhatWasSent ==
    [][\A p \in Procs :
          (EnhancedEnds(p) /\ lastResp'.op = "enhanced" /\ lastResp'.ok)
              => lastResp'.contextLength = procs[p].sentLen]_vars

\* C20 (as claimed): enhanced-message, clear-context and context-info resolve
\* the session identifier alike for every value a caller may send (absent,
\* empty, non-empty): the turns an enhanced exchange stores under a sessionId
\* are those context-info reports and clear-context removes for that sessionId.
C20_SameSessionResolution ==
    [][\A s \in SessionArgs :
          /\ getContextInfo(s) =>
                lastResp'.contextLength = Len(StoredContext(RequestSessionId(s)))
          /\ clearContext(s) =>
                ContextOf(conversationContext', heap', RequestSessionId(s)) = <<>>]_vars

\* the array the handler read before its call is no longer the one stored for
\* its session: the session was cleared while the exchange was in flight
ClearedInFlight(r) ==
    /\ r.context # NoArray
    /\ conversationContext[r.sessionId] # r.context

\* what the session of the exchange in p holds once the exchange has completed
CompletedAfterClear(p) ==
    LET r == procs[p]
        before == Deref(heap, r.context)
        since == Append(turns[r.sessionId], r.id)
        after == ContextOf(conversationContext', heap', r.sessionId)
    IN  /\ after = LastEntries(TurnEntries(since), Min(2 * Len(since), 6))
        /\ LastEntries(after, 2) = <<UserEntry(r.id), AssistantEntry(r.id)>>
        /\ ClearedInFlight(r) =>
              \A i \in 1..Len(before), j \in 1..Len(after) : after[j] # before[i]

\* C21: an enhanced exchange that is in flight when its session is cleared
\* never brings back turns stored before the clear: when it completes, the
\* session's context holds only pairs of exchanges that completed after the
\* clear, and ends with its own pair.
C21_ClearedTurnsStayCleared ==
    [][\A p \in Procs :
          (EnhancedEnds(p) /\ lastResp'.ok /\ procs[p].useContext)
              => CompletedAfterClear(p)]_vars

\* the second of two exchanges read the first one's pair, the session was cleared
\* while it was in flight, and it has completed: the session holds its pair alone
C21_Witness ==
    /\ issued = 2
    /\ \A p \in Procs : procs[p].pc = "idle"
    /\ lastResp.op = "enhanced"
    /\ lastResp.ok
    /\ lastResp.contextLength = 2
    /\ \E k \in SessionKeys :
          /\ turns[k] = <<2>>
          /\ StoredContext(k) = <<UserEntry(2), AssistantEntry(2)>>

====
